---- MODULE Spec2Model ----
(***************************************************************************)
(* Model of src/app.py: the Streamlit page of the Magelang tourism         *)
(* recommender.  The script loads three CSV tables and a pickled           *)
(* matrix-factorisation model, stops when loading failed, and otherwise    *)
(* serves recommend_places, search_place, the average rating of a place    *)
(* and get_reviews_for_place over the loaded, never mutated tables.        *)
(*                                                                         *)
(* Text is a sequence of one-character strings.  A value that pandas may   *)
(* hold as NaN/None is an option: <<>> is the missing value, <<v>> holds v. *)
(***************************************************************************)
EXTENDS Integers, Sequences, FiniteSets, TLC

VARIABLES disk, rating_df, place_df, user_df, model, pc, errors, out

vars == <<disk, rating_df, place_df, user_df, model, pc, errors, out>>

\* ------------------------------------------------------------------ bounds
MaxPlaces == 3
MaxRatings == 3

\* ------------------------------------------------------------ option values
None == <<>>
Some(v) == <<v>>
NaN == <<>>
notna(cell) == cell # <<>>

\* ------------------------------------------------------------------- text
LowerChar(c) == IF c = "A" THEN "a" ELSE IF c = "B" THEN "b" ELSE c

\* str.lower()
lower(s) == [i \in 1..Len(s) |-> LowerChar(s[i])]

\* the literal k occurs in s at position i
OccursAt(s, k, i) ==
    /\ i >= 1
    /\ i + Len(k) - 1 <= Len(s)
    /\ \A j \in 1..Len(k) : s[i + j - 1] = k[j]

\* str.count(k): the occurrences found scanning left to right, each search
\* resuming after the previous occurrence; the empty k occurs Len(s) + 1 times
RECURSIVE count_from(_, _, _)
count_from(s, k, i) ==
    IF i + Len(k) - 1 > Len(s) THEN 0
    ELSE IF OccursAt(s, k, i)
         THEN 1 + count_from(s, k, IF Len(k) = 0 THEN i + 1 ELSE i + Len(k))
         ELSE count_from(s, k, i + 1)

count(s, k) == count_from(s, k, 1)

\* one pattern character of the regular expression against one character,
\* under re.IGNORECASE: "." is the wildcard, any other character is a literal
re_char(p, c) == p = "." \/ LowerChar(p) = LowerChar(c)

\* re.search(pat, s, flags=re.IGNORECASE) for patterns of literals and "."
re_search(pat, s) ==
    \E i \in 1..(Len(s) + 1) :
        /\ i + Len(pat) - 1 <= Len(s)
        /\ \A j \in 1..Len(pat) : re_char(pat[j], s[i + j - 1])

\* Series.str.contains(keyword, case=False, na=False) on one cell: the keyword
\* is a regular expression (regex=True is the default), a missing cell is False
str_contains(cell, keyword) == notna(cell) /\ re_search(keyword, cell[1])

\* ------------------------------------------------------------ data sources
FileNames == {"rating", "place", "user", "model"}

Row(u, p, name, r) ==
    [User_Id |-> u, Place_Id |-> p, Place_Name |-> name, Place_Rating |-> r]

Place(p, name, desc) == [Place_Id |-> p, Place_Name |-> name, Description |-> desc]

User(u, g, a, reg) == [User_Id |-> u, Gender |-> g, Age |-> a, Regional |-> reg]

\* sequences over S of length at most n
SeqUpTo(S, n) == UNION {[1..k -> S] : k \in 0..n}

\* ---------------------------------------------------------------- loading
\* load_data: one try block around the three reads, so one missing CSV file
\* makes all three results None and emits the dataset error
load_data(d) ==
    IF {"rating", "place", "user"} \subseteq d.exists
    THEN [rating |-> Some(d.rating), place |-> Some(d.place), user |-> Some(d.user),
          error |-> <<>>]
    ELSE [rating |-> None, place |-> None, user |-> None,
          error |-> <<"dataset tidak ditemukan">>]

load_model(d) ==
    IF "model" \in d.exists
    THEN [model |-> Some(d.model), error |-> <<>>]
    ELSE [model |-> None, error |-> <<"mf_model.pkl tidak ditemukan">>]

\* variant: the stop check without the test of the model
must_stop_rating_only(rdf, mdl) == rdf = None

\* if rating_df is None or model is None: st.stop()
must_stop(rdf, mdl) == rdf = None \/ mdl = None

NoCall == [op |-> "none", args |-> <<>>, result |-> <<>>]

\* the top of the script: both loads, then the stop check
Load ==
    /\ pc = "start"
    /\ LET data == load_data(disk)
           mdl == load_model(disk)
       IN /\ rating_df' = data.rating
          /\ place_df' = data.place
          /\ user_df' = data.user
          /\ model' = mdl.model
          /\ errors' = errors \o data.error \o mdl.error
          /\ pc' = IF must_stop(data.rating, mdl.model) THEN "stopped" ELSE "ready"
    /\ UNCHANGED <<disk, out>>

\* ----------------------------------------------------------------- search
\* DataFrame.drop_duplicates(): the first occurrence of every distinct row
RECURSIVE drop_duplicates(_)
drop_duplicates(rows) ==
    IF rows = <<>> THEN <<>>
    ELSE LET front == drop_duplicates(SubSeq(rows, 1, Len(rows) - 1))
             last == rows[Len(rows)]
         IN IF \E i \in 1..Len(front) : front[i] = last THEN front
            ELSE Append(front, last)

\* variant: the weights of name and description exchanged
relevance_score_swapped(row, keyword_lower) ==
    LET name_score == count(lower(row.Place_Name), keyword_lower)
        desc_score == IF notna(row.Description)
                      THEN count(lower(row.Description[1]), keyword_lower)
                      ELSE 0
    IN name_score + desc_score * 2

relevance_score(row, keyword_lower) ==
    LET name_score == count(lower(row.Place_Name), keyword_lower)
        desc_score == IF notna(row.Description)
                      THEN count(lower(row.Description[1]), keyword_lower)
                      ELSE 0
    IN name_score * 2 + desc_score

\* pd.concat([name_match, desc_match]).drop_duplicates().reset_index(drop=True)
matched(pdf, keyword) ==
    LET InName(row) == str_contains(Some(row.Place_Name), keyword)
        InDesc(row) == str_contains(row.Description, keyword)
    IN drop_duplicates(SelectSeq(pdf, InName) \o SelectSeq(pdf, InDesc))

\* results["Relevance"] = results.apply(relevance_score, axis=1)
with_relevance(rows, keyword) ==
    [i \in 1..Len(rows) |->
        [Place_Id |-> rows[i].Place_Id, Place_Name |-> rows[i].Place_Name,
         Description |-> rows[i].Description,
         Relevance |-> relevance_score(rows[i], lower(keyword))]]

Perms(n) == {f \in [1..n -> 1..n] : \A i, j \in 1..n : i # j => f[i] # f[j]}

\* variant: ascending=True
sort_values_ascending(rows) ==
    {[i \in 1..Len(rows) |-> rows[f[i]]] :
        f \in {g \in Perms(Len(rows)) :
                 \A i \in 1..(Len(rows) - 1) :
                     rows[g[i]].Relevance <= rows[g[i + 1]].Relevance}}

\* sort_values(by="Relevance", ascending=False): kind defaults to "quicksort",
\* which pandas documents as not stable, so rows of equal Relevance may come
\* out in any relative order; every outcome is a descending rearrangement
sort_values(rows) ==
    {[i \in 1..Len(rows) |-> rows[f[i]]] :
        f \in {g \in Perms(Len(rows)) :
                 \A i \in 1..(Len(rows) - 1) :
                     rows[g[i]].Relevance >= rows[g[i + 1]].Relevance}}

\* the outcomes of search_place(keyword)
search_place(pdf, keyword) ==
    LET results == matched(pdf, keyword)
    IN IF results = <<>> THEN {<<>>}
       ELSE sort_values(with_relevance(results, keyword))

\* --------------------------------------------------------- recommendation
AllUserIds == {1, 2, 3}

\* model.predict(user_id, place_id).est of the loaded model
predict_rating(mdl, user_id, place_id) == mdl[<<user_id, place_id>>]

\* rating_df[rating_df['User_Id'] == user_id]['Place_Id'].values
rated_places(rdf, user_id) ==
    LET ByUser(row) == row.User_Id = user_id
        rows == SelectSeq(rdf, ByUser)
    IN [i \in 1..Len(rows) |-> rows[i].Place_Id]

\* variant: the rated places are not filtered out
unrated_all(rdf, pdf, user_id) == [i \in 1..Len(pdf) |-> pdf[i].Place_Id]

\* [p for p in all_places if p not in rated_places]
unrated(rdf, pdf, user_id) ==
    LET rated == rated_places(rdf, user_id)
        all_places == [i \in 1..Len(pdf) |-> pdf[i].Place_Id]
        NotRated(p) == ~ \E i \in 1..Len(rated) : rated[i] = p
    IN SelectSeq(all_places, NotRated)

\* place_df[place_df['Place_Id'] == place]['Place_Name'].values[0]
place_name_of(pdf, place) ==
    LET IsPlace(row) == row.Place_Id = place
    IN SelectSeq(pdf, IsPlace)[1].Place_Name

\* the tuples (place, place_name, est_rating) in the order of unrated
predictions(rdf, pdf, mdl, user_id) ==
    LET places == unrated(rdf, pdf, user_id)
    IN [i \in 1..Len(places) |->
          <<places[i], place_name_of(pdf, places[i]),
            predict_rating(mdl, user_id, places[i])>>]

\* x goes behind every element of the descending list whose key is >= its own
insert_desc(sorted, x) ==
    LET k == Cardinality({i \in 1..Len(sorted) : sorted[i][3] >= x[3]})
    IN SubSeq(sorted, 1, k) \o <<x>> \o SubSeq(sorted, k + 1, Len(sorted))

\* predictions.sort(key=lambda x: x[2], reverse=True): list.sort is stable,
\* also with reverse=True
RECURSIVE sort_reverse(_)
sort_reverse(preds) ==
    IF preds = <<>> THEN <<>>
    ELSE insert_desc(sort_reverse(SubSeq(preds, 1, Len(preds) - 1)), preds[Len(preds)])

\* variant: predictions[:top_n - 1]
slice_one_short(preds, top_n) ==
    IF top_n >= 1
    THEN SubSeq(preds, 1, IF top_n - 1 < Len(preds) THEN top_n - 1 ELSE Len(preds))
    ELSE <<>>

\* predictions[:top_n]: a negative top_n counts from the end of the list
slice(preds, top_n) ==
    IF top_n >= 0
    THEN SubSeq(preds, 1, IF top_n < Len(preds) THEN top_n ELSE Len(preds))
    ELSE SubSeq(preds, 1, IF Len(preds) + top_n > 0 THEN Len(preds) + top_n ELSE 0)

recommend_places(rdf, pdf, mdl, user_id, top_n) ==
    slice(sort_reverse(predictions(rdf, pdf, mdl, user_id)), top_n)

\* ---------------------------------------------------------------- reviews
Joined(r, g, a, reg) ==
    [User_Id |-> r.User_Id, Place_Id |-> r.Place_Id, Place_Name |-> r.Place_Name,
     Place_Rating |-> r.Place_Rating, Gender |-> g, Age |-> a, Regional |-> reg]

\* rating_df.merge(user_df, on="User_Id", how="left"): the rating rows in their
\* order, each once per user row of its User_Id, or once with missing user
\* columns when the user table has no such row
RECURSIVE merge_left(_, _)
merge_left(rdf, udf) ==
    IF rdf = <<>> THEN <<>>
    ELSE LET r == Head(rdf)
             SameUser(u) == u.User_Id = r.User_Id
             hits == SelectSeq(udf, SameUser)
             rows == IF hits = <<>> THEN <<Joined(r, NaN, NaN, NaN)>>
                     ELSE [i \in 1..Len(hits) |->
                             Joined(r, Some(hits[i].Gender), Some(hits[i].Age),
                                    Some(hits[i].Regional))]
         IN rows \o merge_left(Tail(rdf), udf)

\* variant: the names compared without str.lower()
get_reviews_case_sensitive(rdf, udf, place_name) ==
    LET OfPlace(row) == row.Place_Name = place_name
    IN SelectSeq(merge_left(rdf, udf), OfPlace)

\* reviews[reviews['Place_Name'].str.lower() == place_name.lower()]
get_reviews_for_place(rdf, udf, place_name) ==
    LET OfPlace(row) == lower(row.Place_Name) = lower(place_name)
    IN SelectSeq(merge_left(rdf, udf), OfPlace)

RECURSIVE sum(_)
sum(values) == IF values = <<>> THEN 0 ELSE Head(values) + sum(Tail(values))

\* variant: 0 as the mean of no value
mean_zero_when_empty(values) ==
    IF values = <<>> THEN Some(<<0, 1>>) ELSE Some(<<sum(values), Len(values)>>)

\* Series.mean(): NaN for no value, else the quotient sum/count, kept as the
\* pair <<sum, count>>
mean(values) == IF values = <<>> THEN NaN ELSE Some(<<sum(values), Len(values)>>)

\* rating_df[rating_df['Place_Name'].str.lower() == name.lower()]['Place_Rating'].mean()
\* and the branch on np.isnan that follows it
avg_rating(rdf, place_name) ==
    LET OfPlace(row) == lower(row.Place_Name) = lower(place_name)
        rows == SelectSeq(rdf, OfPlace)
        avg == mean([i \in 1..Len(rows) |-> rows[i].Place_Rating])
    IN IF notna(avg) THEN [text |-> "Rata-rata Rating", value |-> avg]
       ELSE [text |-> "Belum ada rating", value |-> NaN]

\* ----------------------------------------------------------------- inputs
\* name and description of the places the catalogs are built from
PlaceTexts ==
    << <<(<<"A">>), NaN>>,
       <<(<<"b">>), Some(<<"a", "a", "a">>)>>,
       <<(<<"a">>), Some(<<"A", "b">>)>>,
       <<(<<"b", ".">>), Some(<<"b">>)>> >>

TextOf(p) == PlaceTexts[((p - 1) % Len(PlaceTexts)) + 1]

\* the catalog of MaxPlaces places, Place_Id unique
Catalog == [p \in 1..MaxPlaces |-> Place(p, TextOf(p)[1], TextOf(p)[2])]

\* every catalog of at most MaxPlaces places over PlaceTexts, Place_Id unique
TextCatalogs ==
    {[p \in 1..Len(t) |-> Place(p, t[p][1], t[p][2])] :
        t \in SeqUpTo({PlaceTexts[i] : i \in 1..Len(PlaceTexts)}, MaxPlaces)}

Keywords ==
    {<<>>, <<"a">>, <<"A">>, <<"b">>, <<"a", "a">>, <<"A", "b">>, <<".">>}

\* rating tables over the catalog's places: user 1 rates any of them, user 2
\* the first one, user 3 none
RecommendRows ==
    {Row(1, p, TextOf(p)[1], 4) : p \in 1..MaxPlaces} \cup {Row(2, 1, TextOf(1)[1], 5)}

RecommendRatings == SeqUpTo(RecommendRows, MaxRatings)

\* rating rows whose Place_Name differs in case between rows of one place
ReviewRows ==
    {Row(1, 1, <<"A", "b">>, 4), Row(2, 1, <<"a", "B">>, 5), Row(3, 1, <<"A", "b">>, 3),
     Row(1, 2, <<"b">>, 5), Row(2, 2, <<"b">>, 3), Row(1, 1, <<"A", "b">>, 5)}

ReviewRatings == SeqUpTo(ReviewRows, MaxRatings)

ReviewNames == {<<"A", "B">>, <<"b">>, <<"a">>}

UserRows == <<User(1, "F", 20, "Magelang"), User(2, "M", 31, "Sleman")>>

\* user tables, User_Id unique
UserTables ==
    {<<>>, <<UserRows[1]>>, UserRows, <<UserRows[2], UserRows[1]>>}

\* the estimates of two trained models, for every user and place id
Models ==
    {[x \in AllUserIds \X (1..MaxPlaces) |-> x[2]],
     [x \in AllUserIds \X (1..MaxPlaces) |-> (x[1] + x[2]) % 2]}

Model0 == [x \in AllUserIds \X (1..MaxPlaces) |-> (x[1] + x[2]) % 2]

TopNs == (0 - MaxPlaces)..(MaxPlaces + 1)

\* ---------------------------------------------------------------- actions
Recommend ==
    /\ pc = "ready"
    /\ \E user_id \in AllUserIds, top_n \in TopNs :
          out' = [op |-> "recommend_places", args |-> <<user_id, top_n>>,
                  result |-> recommend_places(rating_df[1], place_df[1], model[1],
                                              user_id, top_n)]
    /\ UNCHANGED <<disk, rating_df, place_df, user_df, model, pc, errors>>

Search ==
    /\ pc = "ready"
    /\ \E keyword \in Keywords :
          \E results \in search_place(place_df[1], keyword) :
              out' = [op |-> "search_place", args |-> <<keyword>>, result |-> results]
    /\ UNCHANGED <<disk, rating_df, place_df, user_df, model, pc, errors>>

AvgRating ==
    /\ pc = "ready"
    /\ \E place_name \in ReviewNames :
          out' = [op |-> "avg_rating", args |-> <<place_name>>,
                  result |-> avg_rating(rating_df[1], place_name)]
    /\ UNCHANGED <<disk, rating_df, place_df, user_df, model, pc, errors>>

Reviews ==
    /\ pc = "ready"
    /\ \E place_name \in ReviewNames :
          out' = [op |-> "get_reviews_for_place", args |-> <<place_name>>,
                  result |-> get_reviews_for_place(rating_df[1], user_df[1], place_name)]
    /\ UNCHANGED <<disk, rating_df, place_df, user_df, model, pc, errors>>

\* ---------------------------------------------------------- specifications
InitWith(Exists, Ratings, Places, Users, Mdls) ==
    /\ disk \in [exists : Exists, rating : Ratings, place : Places, user : Users,
                 model : Mdls]
    /\ rating_df = None
    /\ place_df = None
    /\ user_df = None
    /\ model = None
    /\ pc = "start"
    /\ errors = <<>>
    /\ out = NoCall

\* the whole script, any subset of the four files present
Init ==
    InitWith(SUBSET FileNames, SeqUpTo(ReviewRows, 1), {Catalog}, {UserRows}, {Model0})

Next == Load \/ Recommend \/ Search \/ AvgRating \/ Reviews

Spec == Init /\ [][Next]_vars

\* recommend_places over the rating tables and the models
InitRecommend ==
    InitWith({FileNames}, RecommendRatings, {Catalog}, {UserRows}, Models)

NextRecommend == Load \/ Recommend

SpecRecommend == InitRecommend /\ [][NextRecommend]_vars

\* search_place over the catalogs and the keywords
InitSearch ==
    InitWith({FileNames}, {<<>>}, TextCatalogs, {UserRows}, {Model0})

NextSearch == Load \/ Search

SpecSearch == InitSearch /\ [][NextSearch]_vars

\* the average rating and the reviews over the rating and user tables
InitReviews ==
    InitWith({FileNames}, ReviewRatings, {Catalog}, UserTables, {Model0})

NextReviews == Load \/ AvgRating \/ Reviews

SpecReviews == InitReviews /\ [][NextReviews]_vars

\* ----------------------------------------------------------- recommend_places
\* the place ids the user has rated in the loaded rating table
SeenSet(user_id) ==
    {rating_df[1][i].Place_Id :
        i \in {j \in 1..Len(rating_df[1]) : rating_df[1][j].User_Id = user_id}}

\* C1: for top_n >= 0 recommend_places returns at most top_n entries, none of
\* a place the user has rated, in non-increasing order of estimated rating
C1_AtMostNUnseenDescending ==
    (out.op = "recommend_places" /\ out.args[2] >= 0) =>
        LET res == out.result
        IN /\ Len(res) <= out.args[2]
           /\ \A i \in 1..Len(res) : res[i][1] \notin SeenSet(out.args[1])
           /\ \A i \in 1..(Len(res) - 1) : res[i][3] >= res[i + 1][3]

\* a user with ratings gets exactly top_n >= 2 entries, the first two of
\* different estimates and not in catalog order
C1_Witness ==
    /\ out.op = "recommend_places"
    /\ out.args[2] >= 2
    /\ Len(out.result) = out.args[2]
    /\ SeenSet(out.args[1]) # {}
    /\ out.result[1][3] > out.result[2][3]
    /\ out.result[1][1] > out.result[2][1]

\* C2: for every top_n <= 0 recommend_places returns the empty sequence
C2_NonPositiveTopNEmpty ==
    (out.op = "recommend_places" /\ out.args[2] <= 0) => out.result = <<>>

\* C7: for top_n >= catalog size minus seen-set size recommend_places returns
\* exactly that many entries, the unseen places of the catalog; a user without
\* ratings gets one entry per catalog place
C7_AllUnseenReturned ==
    (out.op = "recommend_places"
        /\ out.args[2] >= Len(place_df[1]) - Cardinality(SeenSet(out.args[1]))) =>
        LET res == out.result
            seen == SeenSet(out.args[1])
        IN /\ Len(res) = Len(place_df[1]) - Cardinality(seen)
           /\ {res[i][1] : i \in 1..Len(res)}
                = {place_df[1][i].Place_Id : i \in 1..Len(place_df[1])} \ seen
           /\ seen = {} => Len(res) = Len(place_df[1])

\* top_n is exactly the number of unseen places of a user who rated some
C7_Witness ==
    /\ out.op = "recommend_places"
    /\ SeenSet(out.args[1]) # {}
    /\ out.args[2] = Len(place_df[1]) - Cardinality(SeenSet(out.args[1]))
    /\ out.args[2] >= 2
    /\ Len(out.result) = out.args[2]

\* --------------------------------------------------------------- search_place
\* the texts are equal up to case
CaseEq(s, t) == Len(s) = Len(t) /\ \A i \in 1..Len(s) : LowerChar(s[i]) = LowerChar(t[i])

\* the positions of s where k occurs, case ignored
OccPositions(s, k) ==
    {i \in 1..(Len(s) + 1) :
        i + Len(k) - 1 <= Len(s) /\ CaseEq(SubSeq(s, i, i + Len(k) - 1), k)}

\* the number of case-insensitive occurrences of k in s: the most positions of
\* occurrences no two of which overlap
Occurrences(s, k) ==
    LET Disjoint(P) == \A i, j \in P : i < j => j - i >= Len(k)
        sizes == {Cardinality(P) : P \in {Q \in SUBSET OccPositions(s, k) : Disjoint(Q)}}
    IN CHOOSE n \in sizes : \A m \in sizes : m <= n

\* the catalog row contains the keyword as a case-insensitive substring of its
\* name or of its description, when it has one
ContainsKeyword(row, k) ==
    \/ OccPositions(row.Place_Name, k) # {}
    \/ notna(row.Description) /\ OccPositions(row.Description[1], k) # {}

\* C3: search_place("") returns the empty sequence for every catalog
C3_EmptyKeywordEmptyResult ==
    (out.op = "search_place" /\ out.args[1] = <<>>) => out.result = <<>>

\* the position of the place in the matched and deduplicated set
MatchedPos(place_id, keyword) ==
    LET m == matched(place_df[1], keyword)
    IN CHOOSE i \in 1..Len(m) : m[i].Place_Id = place_id

\* C4 (as claimed, here for the non-empty keywords alone): the result is in
\* non-increasing order of relevance and results of equal relevance keep the
\* relative order of the matched and deduplicated set
C4_DescendingStable ==
    (out.op = "search_place" /\ out.args[1] # <<>>) =>
        LET res == out.result
        IN \A i, j \in 1..Len(res) :
              i < j =>
                /\ res[i].Relevance >= res[j].Relevance
                /\ res[i].Relevance = res[j].Relevance =>
                     MatchedPos(res[i].Place_Id, out.args[1])
                        < MatchedPos(res[j].Place_Id, out.args[1])

\* C4 (amended): the result is in non-increasing order of relevance and holds
\* every row of the matched and deduplicated set exactly once
C4_DescendingRearrangement ==
    out.op = "search_place" =>
        LET res == out.result
            m == matched(place_df[1], out.args[1])
        IN /\ \A i \in 1..(Len(res) - 1) : res[i].Relevance >= res[i + 1].Relevance
           /\ Len(res) = Len(m)
           /\ \A k \in 1..Len(m) :
                 Cardinality({i \in 1..Len(res) : res[i].Place_Id = m[k].Place_Id}) = 1

\* three results: a tie between a name match and a description-only match
\* that precedes it in the catalog, and a result of another relevance
C4_Witness ==
    /\ out.op = "search_place"
    /\ Len(out.result) = MaxPlaces
    /\ \E i, j, k \in 1..Len(out.result) :
          /\ i < j
          /\ out.result[i].Relevance = out.result[j].Relevance
          /\ out.result[k].Relevance # out.result[i].Relevance
          /\ MatchedPos(out.result[i].Place_Id, out.args[1])
                < MatchedPos(out.result[j].Place_Id, out.args[1])
          /\ out.result[i].Place_Id > out.result[j].Place_Id

\* C5: for a non-empty keyword the result holds exactly the catalog places whose
\* name or non-missing description contains the keyword as a case-insensitive
\* substring, each once
C5_ExactlySubstringMatches ==
    (out.op = "search_place" /\ out.args[1] # <<>>) =>
        LET res == out.result
            pdf == place_df[1]
        IN /\ {res[i].Place_Id : i \in 1..Len(res)}
                = {pdf[i].Place_Id :
                     i \in {j \in 1..Len(pdf) : ContainsKeyword(pdf[j], out.args[1])}}
           /\ \A i, j \in 1..Len(res) : res[i].Place_Id = res[j].Place_Id => i = j

\* C6: the relevance of every returned place is twice the number of
\* case-insensitive occurrences of the keyword in its name plus the number of
\* them in its description, a missing description counting 0
C6_RelevanceFormula ==
    out.op = "search_place" =>
        \A i \in 1..Len(out.result) :
            LET row == out.result[i]
                cat == place_df[1][row.Place_Id]
            IN /\ row.Place_Name = cat.Place_Name
               /\ row.Description = cat.Description
               /\ row.Relevance
                    = 2 * Occurrences(cat.Place_Name, out.args[1])
                      + (IF notna(cat.Description)
                         THEN Occurrences(cat.Description[1], out.args[1])
                         ELSE 0)

\* the keyword occurs once in the name and once in the description, in another
\* case than the keyword's, and the place scores 3
C6_Witness ==
    /\ out.op = "search_place"
    /\ \E i \in 1..Len(out.result) :
          LET row == out.result[i]
          IN /\ row.Relevance = 3
             /\ notna(row.Description)
             /\ Occurrences(row.Place_Name, out.args[1]) = 1
             /\ Occurrences(row.Description[1], out.args[1]) = 1
             /\ OccPositions(row.Place_Name, out.args[1]) # {}
             /\ ~ \E p \in 1..Len(row.Place_Name) : OccursAt(row.Place_Name, out.args[1], p)

\* -------------------------------------------------------------------- loading
\* C8: when a required data source is absent at load time, the script stops
\* before serving: no operation is ever executed and an error has been emitted
C8_MissingSourceStops ==
    (disk.exists # FileNames /\ pc # "start") =>
        /\ pc = "stopped"
        /\ out = NoCall
        /\ errors # <<>>
        /\ rating_df = None \/ model = None

\* only the model artifact is missing, and the script has stopped
C8_Witness ==
    /\ disk.exists = FileNames \ {"model"}
    /\ pc = "stopped"
    /\ rating_df # None
    /\ errors = <<"mf_model.pkl tidak ditemukan">>

\* ----------------------------------------------------- ratings and reviews
\* the rows of the loaded rating table whose place name is the name up to case
MatchingRows(place_name) ==
    {i \in 1..Len(rating_df[1]) : CaseEq(rating_df[1][i].Place_Name, place_name)}

RECURSIVE SumRatings(_)
SumRatings(I) ==
    IF I = {} THEN 0
    ELSE LET i == CHOOSE x \in I : TRUE
         IN rating_df[1][i].Place_Rating + SumRatings(I \ {i})

\* C9: the average rating of a place is the sum of the rating values of all
\* rating rows of that name (case ignored, every row counted) over their number,
\* so 4 for the ratings 4, 5, 3; without such a row the outcome is the explicit
\* "no rating yet", which carries no number
C9_MeanOrUnknown ==
    out.op = "avg_rating" =>
        LET I == MatchingRows(out.args[1])
        IN IF I = {}
           THEN out.result = [text |-> "Belum ada rating", value |-> NaN]
           ELSE /\ out.result.text = "Rata-rata Rating"
                /\ out.result.value = Some(<<SumRatings(I), Cardinality(I)>>)
                /\ {rating_df[1][i].Place_Rating : i \in I} = {3, 4, 5} /\ Cardinality(I) = 3
                     => out.result.value[1][1] = 4 * out.result.value[1][2]

\* the ratings 4, 5, 3 of one place, under names of different case, average 4
C9_Witness ==
    /\ out.op = "avg_rating"
    /\ Len(rating_df[1]) = 3
    /\ [i \in 1..3 |-> rating_df[1][i].Place_Rating] = <<4, 5, 3>>
    /\ MatchingRows(out.args[1]) = {1, 2, 3}
    /\ rating_df[1][1].Place_Name # rating_df[1][2].Place_Name
    /\ out.result.value = Some(<<12, 3>>)

\* the k-th smallest element of a finite set of numbers
Kth(I, k) == CHOOSE i \in I : Cardinality({j \in I : j < i}) = k - 1

\* gender, age and regional of the user in the loaded user table, missing when
\* the table has no row of the user
UserColumns(user_id) ==
    LET hits == {j \in 1..Len(user_df[1]) : user_df[1][j].User_Id = user_id}
    IN IF hits = {} THEN <<NaN, NaN, NaN>>
       ELSE LET u == user_df[1][CHOOSE j \in hits : TRUE]
            IN <<Some(u.Gender), Some(u.Age), Some(u.Regional)>>

\* C10: get_reviews_for_place returns one review per rating row of that place
\* name (case ignored), in the order of the rating table, each with the row's
\* rating value and the rating user's gender, age and regional
C10_ReviewsPerRatingRow ==
    out.op = "get_reviews_for_place" =>
        LET I == MatchingRows(out.args[1])
            res == out.result
        IN /\ Len(res) = Cardinality(I)
           /\ \A k \in 1..Len(res) :
                 LET r == rating_df[1][Kth(I, k)]
                 IN /\ res[k].Place_Rating = r.Place_Rating
                    /\ res[k].User_Id = r.User_Id
                    /\ res[k].Place_Name = r.Place_Name
                    /\ <<res[k].Gender, res[k].Age, res[k].Regional>>
                          = UserColumns(r.User_Id)

\* two reviews of one place behind a row of another place: the first by a user
\* the user table lacks, the second by a listed user, the names differing in case
C10_Witness ==
    /\ out.op = "get_reviews_for_place"
    /\ Len(out.result) = 2
    /\ MatchingRows(out.args[1]) = {2, 3}
    /\ out.result[1].Gender = NaN
    /\ out.result[2].Gender = Some("M")
    /\ out.result[1].Place_Name # out.result[2].Place_Name
    /\ out.result[1].Place_Rating < out.result[2].Place_Rating

====
